---- MODULE Spec2Model ----
(***************************************************************************)
(* Model of the job queue / dispatch loop / result store of main.py.       *)
(*                                                                         *)
(* The program is one asyncio event loop: translater_worker, one backend   *)
(* task per dispatched job, and one CatGirlService.run task per incoming   *)
(* photo message.  Scheduling is cooperative, so every action below is the *)
(* code a task runs between two suspension points (an await that really    *)
(* suspends: asyncio.sleep, network I/O).  Awaiting a coroutine that never *)
(* suspends (add_translate_task, translate_task_index) or a finished task  *)
(* does not yield to the event loop.                                       *)
(***************************************************************************)
EXTENDS Integers, Sequences, FiniteSets, TLC

\* ------------------------------------------------------------------ bounds
NumJobs == 3          \* photo messages (one caller task and one job each)
TimeStep == 300       \* granularity of the modelled clock, in seconds
MaxTicks == 3         \* the clock stops after MaxTicks steps

\* --------------------------------------------------------- program constants
TRANSLATE_RESULT_TIMEOUT == 600

\* Python's None, as returned by translate_task_index for an absent job.
None == -1

\* Job IDs: the saved path "{username}_{chat_id}_{message_id}.jpg" is determined
\* by the message, so caller c's job is identified with c.
Jobs == 1 .. NumJobs

VARIABLES
  translate_tasks,    \* List[Path]: the pending queue
  translate_result,   \* Dict[Path, (Task, float)] in insertion order:
                      \*   a sequence of [photo, task, t]
  taskState,          \* asyncio.Task created for each job:
                      \*   "none" | "running" | "ok" | "fail"
  wpc,                \* translater_worker: "sleep" | "await" | "sweep" | "crashed"
  photo,              \* translater_worker's local photo (<<>> while unbound)
  timeout_photos,     \* translater_worker's local list
  clock,              \* time.perf_counter()
  cpc,                \* CatGirlService.run per caller:
                      \*   "init" | "poll" | "wait" | "read" | "done"
  idx,                \* run's local idx per caller
  sent,               \* calls made on the caller's replyer, in order
  spinning,           \* callers looping without reaching a suspension point
  submitted,          \* history: arguments of add_translate_task, in call order
  started             \* history: arguments of translate_manga_request, in call order

vars == <<translate_tasks, translate_result, taskState, wpc, photo,
          timeout_photos, clock, cpc, idx, sent, spinning, submitted, started>>

workerVars == <<wpc, photo, timeout_photos>>
callerVars == <<cpc, idx, sent, spinning, submitted>>

\* ------------------------------------------------------------ list helpers
\* list.index(src) (0-based), None on ValueError.
RECURSIVE IndexFrom(_, _, _)
IndexFrom(list, src, i) ==
  IF i > Len(list) THEN None
  ELSE IF list[i] = src THEN i - 1
  ELSE IndexFrom(list, src, i + 1)

translate_task_index(src) == IndexFrom(translate_tasks, src, 1)

\* list.pop(0): the removed element and the remaining list.
PopMutTail(list) == <<list[Len(list)], SubSeq(list, 1, Len(list) - 1)>>
Pop0MutPeek(list) == <<Head(list), list>>
Pop0(list) == <<Head(list), Tail(list)>>

\* list.append(src) and the returned index len(list) - 1.
AppendMutFront(list, src) == <<src>> \o list
AppendMutTwice(list, src) == list \o <<src, src>>
ListAppend(list, src) == Append(list, src)

\* ------------------------------------------------------------ dict helpers
Keys(dict) == {dict[i].photo : i \in 1 .. Len(dict)}
InResult(p) == p \in Keys(translate_result)
EntryOfMutFirst(dict, p) == dict[1]
EntryOf(dict, p) == dict[CHOOSE i \in 1 .. Len(dict) : dict[i].photo = p]

\* dict[p] = (task, t): replaces in place, or inserts at the end.
DictSet(dict, p, task, t) ==
  IF p \in Keys(dict)
  THEN [i \in 1 .. Len(dict) |->
          IF dict[i].photo = p THEN [photo |-> p, task |-> task, t |-> t]
          ELSE dict[i]]
  ELSE Append(dict, [photo |-> p, task |-> task, t |-> t])

\* del dict[p]
DictDelMutAll(dict, p) == <<>>
DictDel(dict, p) == SelectSeq(dict, LAMBDA e : e.photo # p)

\* task.done()
TaskDoneMutTrue(task) == TRUE
TaskDoneMutStarted(task) == taskState[task] # "none"
TaskDone(task) == taskState[task] \in {"ok", "fail"}

\* The condition of the timeout_photos comprehension.
TimedOutMutNoTTL(t, now) == t < now
TimedOut(t, now) == t + TRANSLATE_RESULT_TIMEOUT < now

\* [photo for photo, (task, t) in translate_result.items() if ...]
RECURSIVE TimeoutPhotos(_, _)
TimeoutPhotos(dict, now) ==
  IF dict = <<>> THEN <<>>
  ELSE (IF TimedOut(Head(dict).t, now) THEN <<Head(dict).photo>> ELSE <<>>)
       \o TimeoutPhotos(Tail(dict), now)

\* The event loop runs another task only when none is spinning.
LoopFree == spinning = {}

\* -------------------------------------------------------------------- Init
Init ==
  /\ translate_tasks = <<>>
  /\ translate_result = <<>>
  /\ taskState = [j \in Jobs |-> "none"]
  /\ wpc = "sleep"
  /\ photo = <<>>
  /\ timeout_photos = <<>>
  /\ clock = 0
  /\ cpc = [c \in Jobs |-> "init"]
  /\ idx = [c \in Jobs |-> 0]
  /\ sent = [c \in Jobs |-> <<>>]
  /\ spinning = {}
  /\ submitted = <<>>
  /\ started = <<>>

\* ------------------------------------------------------------------- clock
Tick ==
  /\ clock + TimeStep <= MaxTicks * TimeStep
  /\ clock' = clock + TimeStep
  /\ UNCHANGED <<translate_tasks, translate_result, taskState, started>>
  /\ UNCHANGED workerVars
  /\ UNCHANGED callerVars

\* ------------------------------------------------------- translater_worker
\* WorkerDequeue with the sweep also run by an iteration that finds no job.
WorkerDequeueMutReapIdle ==
  /\ LoopFree
  /\ wpc = "sleep"
  /\ IF translate_tasks = <<>>
     THEN /\ translate_result' =
               SelectSeq(translate_result, LAMBDA e : ~TimedOut(e.t, clock))
          /\ UNCHANGED <<translate_tasks, taskState, clock, started>>
          /\ UNCHANGED workerVars
          /\ UNCHANGED callerVars
     ELSE LET r == Pop0(translate_tasks) IN
          /\ translate_tasks' = r[2]
          /\ photo' = <<r[1]>>
          /\ taskState' = [taskState EXCEPT ![r[1]] = "running"]
          /\ started' = Append(started, r[1])
          /\ wpc' = "await"
          /\ UNCHANGED <<translate_result, timeout_photos, clock>>
          /\ UNCHANGED callerVars

\* Lines 60-64: resumed from the sleep at the top of the loop.
WorkerDequeue ==
  /\ LoopFree
  /\ wpc = "sleep"
  /\ IF translate_tasks = <<>>
     THEN UNCHANGED vars
     ELSE LET r == Pop0(translate_tasks) IN
          /\ translate_tasks' = r[2]
          /\ photo' = <<r[1]>>
          /\ taskState' = [taskState EXCEPT ![r[1]] = "running"]
          /\ started' = Append(started, r[1])
          /\ wpc' = "await"
          /\ UNCHANGED <<translate_result, timeout_photos, clock>>
          /\ UNCHANGED callerVars

\* translate_manga_request finishes: returns the translated path or raises.
BackendFinish(j, outcome) ==
  /\ LoopFree
  /\ taskState[j] = "running"
  /\ taskState' = [taskState EXCEPT ![j] = outcome]
  /\ UNCHANGED <<translate_tasks, translate_result, clock, started>>
  /\ UNCHANGED workerVars
  /\ UNCHANGED callerVars

\* Lines 65-74: resumed from the sleep of the task.done() loop.
WorkerPublish ==
  /\ LoopFree
  /\ wpc = "await"
  /\ IF ~TaskDone(photo[1])
     THEN UNCHANGED vars
     ELSE LET now == clock
              result == DictSet(translate_result, photo[1], photo[1], now)
              timeouts == TimeoutPhotos(result, now)
          IN
          /\ translate_result' = result
          /\ timeout_photos' = timeouts
          /\ wpc' = IF timeouts = <<>> THEN "sleep" ELSE "sweep"
          /\ UNCHANGED <<translate_tasks, taskState, photo, clock, started>>
          /\ UNCHANGED callerVars

\* Lines 76-82: resumed from the sleep of one iteration of the sweep.
WorkerSweep ==
  /\ LoopFree
  /\ wpc = "sweep"
  /\ LET timeout_photo == Head(timeout_photos) IN
     IF ~InResult(timeout_photo)
     THEN \* KeyError leaves the coroutine
          /\ wpc' = "crashed"
          /\ UNCHANGED <<translate_tasks, translate_result, taskState, photo,
                         timeout_photos, clock, started>>
          /\ UNCHANGED callerVars
     ELSE /\ translate_result' = DictDel(translate_result, timeout_photo)
          /\ timeout_photos' = Tail(timeout_photos)
          /\ wpc' = IF Tail(timeout_photos) = <<>> THEN "sleep" ELSE "sweep"
          /\ UNCHANGED <<translate_tasks, taskState, photo, clock, started>>
          /\ UNCHANGED callerVars

\* ------------------------------------------------------ CatGirlService.run
Reply(c, msg) == sent' = [sent EXCEPT ![c] = Append(@, msg)]

\* Lines 109-111.
add_translate_taskMutLen(src) ==
  LET list == ListAppend(translate_tasks, src) IN <<list, Len(list)>>
add_translate_task(src) ==
  LET list == ListAppend(translate_tasks, src) IN <<list, Len(list) - 1>>

\* Submit with the job enqueued before save_photo's outcome is looked at.
SubmitMutEnqueueFirst(c, outcome) ==
  /\ LoopFree
  /\ cpc[c] = "init"
  /\ LET r == add_translate_task(c) IN
     /\ translate_tasks' = r[1]
     /\ submitted' = Append(submitted, c)
     /\ IF outcome = "ok"
        THEN /\ idx' = [idx EXCEPT ![c] = r[2]]
             /\ Reply(c, IF r[2] # 0 THEN "queued" ELSE "started")
             /\ cpc' = [cpc EXCEPT ![c] = IF r[2] # 0 THEN "poll" ELSE "wait"]
        ELSE /\ cpc' = [cpc EXCEPT ![c] = "done"]
             /\ Reply(c, outcome)
             /\ UNCHANGED idx
  /\ UNCHANGED <<translate_result, taskState, clock, started, spinning>>
  /\ UNCHANGED workerVars

\* Lines 206-225: save_photo returns or raises, the file is checked, the job is
\* enqueued and the first reply is sent.  The suspensions inside save_photo
\* (get_file, download_to_drive) come before the task first touches the queue,
\* so the action is taken at the resumption from the download.
Submit(c, outcome) ==
  /\ LoopFree
  /\ cpc[c] = "init"
  /\ IF outcome = "ok"
     THEN LET r == add_translate_task(c) IN
          /\ translate_tasks' = r[1]
          /\ idx' = [idx EXCEPT ![c] = r[2]]
          /\ submitted' = Append(submitted, c)
          /\ Reply(c, IF r[2] # 0 THEN "queued" ELSE "started")
          /\ cpc' = [cpc EXCEPT ![c] = IF r[2] # 0 THEN "poll" ELSE "wait"]
     ELSE /\ cpc' = [cpc EXCEPT ![c] = "done"]
          /\ Reply(c, outcome)
          /\ UNCHANGED <<translate_tasks, idx, submitted>>
  /\ UNCHANGED <<translate_result, taskState, clock, started, spinning>>
  /\ UNCHANGED workerVars

\* Lines 226-233: one iteration of the position loop.  Only the replies
\* suspend; an iteration that sees the index unchanged goes straight into the
\* next one, with the same state, and so on forever.
PollIndex(c) ==
  /\ LoopFree
  /\ cpc[c] = "poll"
  /\ LET new_idx == translate_task_index(c) IN
     IF new_idx = None \/ new_idx = 0
     THEN /\ Reply(c, "started")
          /\ cpc' = [cpc EXCEPT ![c] = "wait"]
          /\ UNCHANGED <<idx, spinning>>
     ELSE IF idx[c] # new_idx
     THEN /\ idx' = [idx EXCEPT ![c] = new_idx]
          /\ Reply(c, "progress")
          /\ UNCHANGED <<cpc, spinning>>
     ELSE /\ spinning' = spinning \cup {c}
          /\ UNCHANGED <<cpc, idx, sent>>
  /\ UNCHANGED <<translate_tasks, translate_result, taskState, clock, started,
                 submitted>>
  /\ UNCHANGED workerVars

\* Lines 234-236: one check of the result loop.
WaitResult(c) ==
  /\ LoopFree
  /\ cpc[c] = "wait"
  /\ IF ~InResult(c)
     THEN UNCHANGED vars
     ELSE /\ Reply(c, "deleted")
          /\ cpc' = [cpc EXCEPT ![c] = "read"]
          /\ UNCHANGED <<translate_tasks, translate_result, taskState, clock,
                         started, idx, spinning, submitted>>
          /\ UNCHANGED workerVars

\* ReadResult taking the entry out of the dict as it reads it.
ReadResultMutPop(c) ==
  /\ LoopFree
  /\ cpc[c] = "read"
  /\ IF ~InResult(c)
     THEN Reply(c, "failed") /\ UNCHANGED translate_result
     ELSE LET task == EntryOf(translate_result, c).task IN
          /\ TaskDone(task)
          /\ translate_result' = DictDel(translate_result, c)
          /\ Reply(c, IF taskState[task] = "ok" THEN "photo" ELSE "failed")
  /\ cpc' = [cpc EXCEPT ![c] = "done"]
  /\ UNCHANGED <<translate_tasks, taskState, clock, started,
                 idx, spinning, submitted>>
  /\ UNCHANGED workerVars

\* Lines 237-245: resumed from delete_last_message.
ReadResult(c) ==
  /\ LoopFree
  /\ cpc[c] = "read"
  /\ IF ~InResult(c)
     THEN Reply(c, "failed")          \* KeyError is an Exception
     ELSE LET task == EntryOf(translate_result, c).task IN
          /\ TaskDone(task)
          /\ Reply(c, IF taskState[task] = "ok" THEN "photo" ELSE "failed")
  /\ cpc' = [cpc EXCEPT ![c] = "done"]
  /\ UNCHANGED <<translate_tasks, translate_result, taskState, clock, started,
                 idx, spinning, submitted>>
  /\ UNCHANGED workerVars

\* --------------------------------------------------------------------- Next
\* save_photo: a path, or PhotoMissing, PhotoTooBig, UnknownError, or a path at
\* which no file exists.
SaveOutcomes == {"ok", "PhotoMissing", "PhotoTooBig", "UnknownError", "NotExists"}

Worker == WorkerDequeue \/ WorkerPublish \/ WorkerSweep
Backend == \E j \in Jobs, outcome \in {"ok", "fail"} : BackendFinish(j, outcome)
Caller(c) ==
  \/ \E outcome \in SaveOutcomes : Submit(c, outcome)
  \/ PollIndex(c)
  \/ WaitResult(c)
  \/ ReadResult(c)

Next == Tick \/ Worker \/ Backend \/ \E c \in Jobs : Caller(c)

Spec == Init /\ [][Next]_vars

\* The event loop runs every ready task; the backend call ends (timeout=120).
FairSpec ==
  /\ Spec
  /\ WF_vars(Worker)
  /\ WF_vars(Backend)
  /\ \A c \in Jobs : WF_vars(Caller(c))

\* ------------------------------------------------------------ shared notions
Running == {j \in Jobs : taskState[j] = "running"}

\* The worker still holds job j between its dequeue and its publish.
InWorker(j) == wpc = "await" /\ photo = <<j>>

\* Job j was published and its entry has been deleted by the sweep.
Evicted(j) == TaskDone(j) /\ ~InResult(j) /\ ~InWorker(j)

Has(c, msg) == \E i \in 1 .. Len(sent[c]) : sent[c][i] = msg

\* ------------------------------------------------------------------ claims

\* C1: the jobs for which the worker starts a backend call are, in order, the
\* jobs submitted: at every moment the submission sequence is the sequence of
\* started calls followed by the jobs still queued, so no job is skipped,
\* duplicated or reordered.
C1_DispatchIsFIFO == submitted = started \o translate_tasks

\* All three jobs have been dispatched, one of them after having waited behind
\* another in the queue.
C1_Witness ==
  /\ Len(started) = 3
  /\ \E c \in Jobs : Has(c, "queued")

\* C2: at most one backend call is in flight, and a call is in flight only
\* while the worker waits for it: the worker is never back at the top of its
\* loop, where it removes the next head, while a task it created is running.
C2_AtMostOneInFlight ==
  /\ Cardinality(Running) <= 1
  /\ \A j \in Running : InWorker(j)

\* A call is in flight while other jobs wait in the queue.
C2_Witness == Running # {} /\ Len(translate_tasks) >= 2

\* C5: every iteration of a caller's polling loops reaches a suspension point:
\* no caller ever runs an iteration that goes straight into the next one.
C5_EveryIterationSuspends == spinning = {}

\* C7: while a job is in the queue its position changes only when the worker
\* removes the head, and then by exactly one (from 0 to None).
C7_PositionStepsDown ==
  [][\A j \in Jobs :
       LET i == IndexFrom(translate_tasks, j, 1)
           k == IndexFrom(translate_tasks', j, 1)
       IN  i # None =>
             IF started' # started
             THEN k = (IF i = 0 THEN None ELSE i - 1)
             ELSE k = i]_vars

\* A job submitted behind two others has moved up to the head.
C7_Witness == \E c \in Jobs : idx[c] = 2 /\ translate_task_index(c) = 0

\* C8: an entry published at time T is absent from translate_result at every
\* time >= T + TRANSLATE_RESULT_TIMEOUT.
C8_AbsentAfterTTL ==
  \A i \in 1 .. Len(translate_result) :
    clock < translate_result[i].t + TRANSLATE_RESULT_TIMEOUT

\* C9: an entry leaves translate_result only when it is older than the TTL,
\* and never in the sweep of the iteration that published it.
C9_NoEarlyEviction ==
  [][\A i \in 1 .. Len(translate_result) :
       LET e == translate_result[i] IN
       e.photo \notin Keys(translate_result') =>
         /\ clock - e.t > TRANSLATE_RESULT_TIMEOUT
         /\ photo # <<e.photo>>]_vars

\* An entry has been evicted by the sweep that followed a later publish.
C9_Witness ==
  \E j, k \in Jobs : Evicted(j) /\ InResult(k) /\ wpc = "sleep"

\* Job j has been passed to add_translate_task.
Submitted(j) == \E i \in 1 .. Len(submitted) : submitted[i] = j

\* The backend call for job j has been started.
Started(j) == \E i \in 1 .. Len(started) : started[i] = j

\* The notifications that end a caller's exchange.
Terminal == {"photo", "failed", "expired"}
TerminalCount(c) == Cardinality({i \in 1 .. Len(sent[c]) : sent[c][i] \in Terminal})

\* The entry of job c was evicted and caller c has not read it.
EvictedUnread(c) == Evicted(c) /\ cpc[c] \in {"poll", "wait", "read"}

\* C3: a failed backend call never ends the worker, the failure is the outcome
\* stored for that job, and every job queued once a call has failed is
\* dispatched afterwards.
C3_FailureIsIsolated ==
  /\ [](wpc # "crashed")
  /\ [](\A i \in 1 .. Len(translate_result) :
          translate_result[i].task = translate_result[i].photo)
  /\ \A j, k \in Jobs :
       (taskState[j] = "fail" /\ translate_task_index(k) # None) ~> Started(k)

\* C4: every submitted job eventually has an entry in translate_result, and an
\* entry always holds the finished call made for its own job.
C4_RoundTrip ==
  /\ [](\A i \in 1 .. Len(translate_result) :
          /\ translate_result[i].task = translate_result[i].photo
          /\ TaskDone(translate_result[i].task))
  /\ \A j \in Jobs : Submitted(j) ~> InResult(j)

\* C6: every caller whose job was enqueued eventually receives a terminal
\* notification (photo, error or expired), and never more than one.
C6_CallerIsNotified ==
  /\ [](\A c \in Jobs : TerminalCount(c) <= 1)
  /\ \A c \in Jobs : Submitted(c) ~> (TerminalCount(c) = 1)

\* C10: a caller whose entry was evicted before it read it is told neither
\* success nor failure, and is eventually told that the result expired.
C10_ExpiryIsReported ==
  /\ [][\A c \in Jobs :
          EvictedUnread(c) => ~Has(c, "photo")' /\ ~Has(c, "failed")']_vars
  /\ \A c \in Jobs : EvictedUnread(c) ~> Has(c, "expired")

\* The replies to a submission that fails validation.
SubmitErrors == SaveOutcomes \ {"ok"}

\* C11: a submission that fails validation never enters the queue: the step
\* that rejects it changes nothing but that caller's own state, the caller has
\* exactly the one error reply, and its job is never submitted.
C11_RejectedNeverEnqueued ==
  /\ [](\A c \in Jobs :
          (\E e \in SubmitErrors : Has(c, e)) =>
            /\ ~Submitted(c)
            /\ translate_task_index(c) = None
            /\ ~InResult(c)
            /\ taskState[c] = "none"
            /\ Len(sent[c]) = 1
            /\ cpc[c] = "done")
  /\ [][\A c \in Jobs :
          (cpc[c] = "init" /\ cpc'[c] = "done") =>
            /\ sent'[c][1] \in SubmitErrors
            /\ UNCHANGED <<translate_tasks, translate_result, taskState,
                           started, submitted, idx, spinning>>
            /\ UNCHANGED workerVars
            /\ \A d \in Jobs \ {c} : cpc'[d] = cpc[d] /\ sent'[d] = sent[d]]_vars

\* A submission was rejected while one job is in flight and another queued.
C11_Witness ==
  \E c \in Jobs :
    /\ Has(c, "PhotoTooBig")
    /\ Running # {}
    /\ translate_tasks # <<>>

\* C12: add_translate_task appends the job at the tail, leaving the queued
\* jobs in place, and returns the job's index, the number of jobs queued
\* ahead of it.
C12_AppendReturnsIndex ==
  [][submitted' # submitted =>
       LET c == submitted'[Len(submitted')] IN
       /\ translate_tasks' = Append(translate_tasks, c)
       /\ idx'[c] = Len(translate_tasks)
       /\ idx'[c] = IndexFrom(translate_tasks', c, 1)]_vars

\* A job was appended behind two queued jobs and got index 2.
C12_Witness ==
  \E c \in Jobs : idx[c] = 2 /\ translate_task_index(c) = 2 /\ Len(sent[c]) = 1

\* C13: a job that is a key of translate_result is not in translate_tasks, and
\* no job occurs twice in translate_tasks.
C13_ResultedNotQueued ==
  /\ \A j \in Jobs : InResult(j) => translate_task_index(j) = None
  /\ \A i, k \in 1 .. Len(translate_tasks) :
       translate_tasks[i] = translate_tasks[k] => i = k

\* One job has its entry while two others are queued.
C13_Witness == translate_result # <<>> /\ Len(translate_tasks) = 2

\* C14: every entry of translate_result holds a finished task; no entry exists
\* for a job that is queued or whose call is in flight, and a job the worker
\* holds between its dequeue and its publish is in neither structure.
C14_EntriesAreFinished ==
  /\ \A i \in 1 .. Len(translate_result) : TaskDone(translate_result[i].task)
  /\ \A j \in Jobs :
       InResult(j) => j \notin Running /\ translate_task_index(j) = None
  /\ \A j \in Jobs :
       InWorker(j) => ~InResult(j) /\ translate_task_index(j) = None

\* A finished job is still held by the worker, unpublished, while an earlier
\* job has its entry.
C14_Witness ==
  \E j \in Jobs : InWorker(j) /\ TaskDone(j) /\ translate_result # <<>>

\* C15: a caller that has sent the 'processing started' notification has a job
\* that is no longer in translate_tasks.
C15_StartedOnlyAfterDequeue ==
  \A c \in Jobs : Has(c, "started") => translate_task_index(c) = None

\* C16: a caller never sends a photo for a job whose call failed, and the
\* reply of a caller that reads its entry is decided by the outcome of its own
\* job alone: the error reply for a failure, the photo for a success.
C16_FailureSurfacedToOwnCaller ==
  /\ [](\A c \in Jobs : Has(c, "photo") => taskState[c] = "ok")
  /\ [][\A c \in Jobs :
          (cpc[c] = "read" /\ cpc'[c] = "done" /\ InResult(c)) =>
            sent'[c] = Append(sent[c],
                              IF taskState[c] = "ok" THEN "photo" ELSE "failed")]_vars

\* One caller got the error reply for its failed job and another its photo.
C16_Witness ==
  \E c, k \in Jobs :
    /\ taskState[c] = "fail" /\ Has(c, "failed")
    /\ Has(k, "photo")

\* C17: a caller step changes the shared state at most by appending its own
\* job to translate_tasks; it never changes translate_result or a task, and an
\* entry that stays in translate_result stays the same, so that repeated reads
\* of a job return the same outcome until the sweep evicts it.
C17_CallersOnlyAppend ==
  [][/\ callerVars' # callerVars =>
          /\ translate_result' = translate_result
          /\ taskState' = taskState
          /\ \/ translate_tasks' = translate_tasks
             \/ \E c \in Jobs : /\ cpc[c] = "init"
                                /\ translate_tasks' = Append(translate_tasks, c)
     /\ \A i \in 1 .. Len(translate_result) :
          LET e == translate_result[i] IN
          e.photo \in Keys(translate_result') =>
            /\ EntryOf(translate_result', e.photo) = e
            /\ taskState'[e.task] = taskState[e.task]]_vars

\* A caller has read its result and sent the photo, and the entry is still in
\* translate_result.
C17_Witness == \E c \in Jobs : Has(c, "photo") /\ InResult(c)

\* C18: entries leave translate_result only in a sweep, a sweep starts only in
\* the worker step that publishes a result, and while the worker idles on an
\* empty queue translate_result does not change, whatever the time.
C18_ReapOnlyAfterPublish ==
  [][/\ (\E p \in Keys(translate_result) : p \notin Keys(translate_result')) =>
          wpc = "sweep"
     /\ (wpc # "sweep" /\ wpc' = "sweep") =>
          /\ wpc = "await"
          /\ InResult(photo[1])'
          /\ ~InResult(photo[1])
     /\ (wpc = "sleep" /\ translate_tasks = <<>>) =>
          translate_result' = translate_result]_vars

\* Every caller has submitted, the worker idles on an empty queue and an entry
\* older than the TTL is still in translate_result.
C18_Witness ==
  /\ wpc = "sleep" /\ translate_tasks = <<>>
  /\ \A c \in Jobs : cpc[c] # "init"
  /\ \E i \in 1 .. Len(translate_result) :
       clock - translate_result[i].t > TRANSLATE_RESULT_TIMEOUT

\* The stage of job j: 0 not submitted, 1 queued, 2 in flight (in neither
\* structure), 3 in translate_result, 4 evicted.
Stage(j) ==
  IF translate_task_index(j) # None THEN 1
  ELSE IF InResult(j) THEN 3
  ELSE IF ~Started(j) THEN 0
  ELSE IF InWorker(j) THEN 2
  ELSE 4

\* C19: a job moves through its stages in one direction, one stage at a time:
\* queued, in flight, in translate_result, evicted; it never goes back.
C19_LifecycleForward ==
  [][\A j \in Jobs : Stage(j)' \in {Stage(j), Stage(j) + 1}]_vars

\* One job has been evicted while another is queued and a third has its entry.
C19_Witness ==
  \E j, k, l \in Jobs : Stage(j) = 4 /\ Stage(k) = 3 /\ Stage(l) = 1

\* C20: the sweep never looks up a missing key: the worker never ends with a
\* KeyError, and during a sweep every job still in timeout_photos is a key of
\* translate_result.
C20_SweepKeysPresent ==
  /\ wpc # "crashed"
  /\ wpc = "sweep" =>
       \A i \in 1 .. Len(timeout_photos) : InResult(timeout_photos[i])

\* The sweep is suspended between two deletions while a caller is between its
\* membership test and its read of an entry.
C20_Witness ==
  /\ wpc = "sweep"
  /\ \E j \in Jobs : Evicted(j)
  /\ \E c \in Jobs : cpc[c] = "read"

====
